---- MODULE Spec2Model ----
(***************************************************************************)
(* Model of graphix_og_generator: BlockComposer.generate_og, the           *)
(* deprecated get_series_composition and get_grid_composition, the two     *)
(* minimal blocks of og_blocks.py and the OpenGraph.compose primitive of   *)
(* the graphix library they call.                                          *)
(*                                                                         *)
(* Python objects live in `heap` (a sequence indexed by object identity);  *)
(* program variables hold object identities.  An open graph is a record    *)
(*   [nodes, edges, inputs, outputs, meas]                                 *)
(* with `inputs`/`outputs` Python lists (sequences) and `meas` the         *)
(* measurements dict (a function from measured nodes).                     *)
(***************************************************************************)
EXTENDS Integers, Sequences, FiniteSets, TLC

VARIABLES heap, args, frame, pc, err, calls, truncs

vars == <<heap, args, frame, pc, err, calls, truncs>>

(***************************************************************************)
(* Bounds of the explored inputs.                                          *)
(***************************************************************************)
MaxStep == 5
MaxStepRnd == 2
MaxWidth == 3
MaxCapsLen == 2
MaxN == 3
MaxRows == 4
MaxLayers == 4

\* candidate values of an entry of ni_max_vals
CapVals == {2, 5}

(***************************************************************************)
(* Generic helpers (Python builtins).                                      *)
(***************************************************************************)
Range(s) == {s[i] : i \in DOMAIN s}

Max(S) == CHOOSE x \in S : \A y \in S : y <= x

Min2(a, b) == IF a <= b THEN a ELSE b

\* s[a:] for 0 <= a
SliceFrom(s, a) == IF a >= Len(s) THEN <<>> ELSE SubSeq(s, a + 1, Len(s))

\* s[:b] for b >= 0, and s[:-1] when b = -1
SliceTo(s, b) ==
    IF b < 0 THEN (IF Len(s) + b <= 0 THEN <<>> ELSE SubSeq(s, 1, Len(s) + b))
    ELSE SubSeq(s, 1, Min2(b, Len(s)))

\* index (1-based) of the first occurrence of x in s, 0 when absent
IndexOf(s, x) ==
    IF \E i \in DOMAIN s : s[i] = x
    THEN CHOOSE i \in DOMAIN s : s[i] = x /\ \A j \in 1..(i - 1) : s[j] # x
    ELSE 0

\* list with the element at position i deleted
DeleteAt(s, i) == [j \in 1..(Len(s) - 1) |-> IF j < i THEN s[j] ELSE s[j + 1]]

\* dict(zip(ks, vs)): pairs up to the shorter list, a repeated key keeps its
\* last value
DictZip(ks, vs) ==
    LET m == Min2(Len(ks), Len(vs))
    IN  [k \in {ks[i] : i \in 1..m} |->
            vs[Max({i \in 1..m : ks[i] = k})]]

\* all lists of length k over the elements of s: the possible results of
\* random.choices(s, k=k)
Choices(s, k) == [1..k -> Range(s)]

(***************************************************************************)
(* og_blocks.py: the two minimal blocks.  Angles are kept in tenths.       *)
(***************************************************************************)
Measurement(angle, plane) == [angle |-> angle, plane |-> plane]

get_og_1 ==
    [nodes   |-> 0..9,
     edges   |-> {{0, 2}, {1, 4}, {2, 3}, {3, 4}, {2, 5}, {3, 6}, {4, 7},
                  {5, 6}, {6, 7}, {5, 8}, {7, 9}},
     inputs  |-> <<0, 1>>,
     outputs |-> <<8, 9>>,
     meas    |-> [i \in 0..7 |-> Measurement(0, "XY")]]

get_og_2 ==
    [nodes   |-> 0..7,
     edges   |-> {{0, 2}, {1, 3}, {2, 3}, {2, 4}, {3, 5}, {4, 5}, {4, 6},
                  {5, 7}},
     inputs  |-> <<0, 1>>,
     outputs |-> <<6, 7>>,
     meas    |-> [i \in 0..5 |->
                    IF i = 4 THEN Measurement(0, "XY")
                    ELSE IF i = 5 THEN Measurement(5, "YZ")
                    ELSE Measurement(1, "XY")]]

\* og.inside.order()
order(g) == Cardinality(g.nodes)

(***************************************************************************)
(* graphix OpenGraph.compose(self, other, mapping).                        *)
(***************************************************************************)
Values(mapping) == {mapping[k] : k \in DOMAIN mapping}

\* the checks compose makes before building anything; "" when it passes
compose_error(self, other, mapping) ==
    IF ~(DOMAIN mapping \subseteq other.nodes)
    THEN "ValueError: Keys of mapping must be correspond to the nodes of other."
    ELSE IF Cardinality(DOMAIN mapping) # Cardinality(Values(mapping))
    THEN "ValueError: Values in mapping contain duplicates."
    ELSE IF \E v \in DOMAIN mapping :
                /\ v \in DOMAIN other.meas
                /\ mapping[v] \in DOMAIN self.meas
                /\ other.meas[v] # self.meas[mapping[v]]
    THEN "ValueError: Attempted to merge nodes but have different measurements"
    ELSE ""

\* complete relabelling of other's nodes: mapped nodes take their image, the
\* rest take consecutive fresh labels in sorted order
mapping_complete(self, other, mapping) ==
    LET shift == Max(self.nodes \cup Values(mapping)) + 1
        rest  == other.nodes \ DOMAIN mapping
    IN  [v \in other.nodes |->
            IF v \in DOMAIN mapping THEN mapping[v]
            ELSE shift + Cardinality({u \in rest : u < v})]

merge_ports(p1, p2, mc, merged) ==
    LET p2_mapped == [i \in DOMAIN p2 |-> mc[p2[i]]]
        p2_set    == Range(p2_mapped)
        keep1(node) == node \notin merged \/ node \in p2_set
        keep2(node) == node \notin merged
    IN  SelectSeq(p1, keep1) \o SelectSeq(p2_mapped, keep2)

\* the open graph compose returns (compose_error is "")
compose(self, other, mapping) ==
    LET mc     == mapping_complete(self, other, mapping)
        image  == {mc[v] : v \in other.nodes}
        merged == image \cap self.nodes
        shifted == {mc[i] : i \in DOMAIN other.meas}
    IN  [nodes   |-> self.nodes \cup image,
         edges   |-> self.edges \cup {{mc[v] : v \in e} : e \in other.edges},
         inputs  |-> merge_ports(self.inputs, other.inputs, mc, merged),
         outputs |-> merge_ports(self.outputs, other.outputs, mc, merged),
         meas    |-> [u \in DOMAIN self.meas \cup shifted |->
                        IF u \in shifted
                        THEN other.meas[CHOOSE i \in DOMAIN other.meas : mc[i] = u]
                        ELSE self.meas[u]]]

\* the record kept of one compose call
Call(self, other, mapping, result) ==
    [self |-> self, other |-> other, mapping |-> mapping, result |-> result]

(***************************************************************************)
(* BlockComposer.generate_og                                               *)
(*   args  = [fn, og_blocks, n_blocks, merged_nodes_max, ni_max_vals, rnd] *)
(*   frame = [og1, n, og_lst, og_nodes, ti]                                *)
(* ni_max_vals = <<>> stands for None (and for an empty list: both are     *)
(* falsy at line 103).  ti is the position reached in                      *)
(* zip(og_lst, ni_max_vals).                                               *)
(***************************************************************************)
\* line 72
n_max(n_blocks) == Max(n_blocks)

\* line 81
min_io(g1, g2) == Min2(Len(g1.outputs), Len(g2.inputs))


\* effective_width without the test for a negative request
effective_width_no_negative(merged_nodes_max, g1, g2) ==
    IF merged_nodes_max > min_io(g1, g2)
    THEN min_io(g1, g2)
    ELSE merged_nodes_max

\* lines 83-84: the number of elements get_mapping takes from each list
effective_width(merged_nodes_max, g1, g2) ==
    IF merged_nodes_max > min_io(g1, g2) \/ merged_nodes_max < 0
    THEN min_io(g1, g2)
    ELSE merged_nodes_max

\* lines 87-90: the dicts get_mapping can return (one when not rnd, one per
\* outcome of the two random.choices calls otherwise)
get_mapping(rnd, merged_nodes_max, g1, g2) ==
    LET w == effective_width(merged_nodes_max, g1, g2)
    IN  IF ~rnd
        THEN {DictZip(SliceTo(g2.inputs, w), SliceTo(g1.outputs, w))}
        ELSE {DictZip(ins, outs) :
                ins \in Choices(g2.inputs, w), outs \in Choices(g1.outputs, w)}

\* line 92: the candidates for the initial og1
first_block(rnd, og_blocks) ==
    IF ~rnd THEN {og_blocks[1]} ELSE Range(og_blocks)

\* line 94: the n-th element (n >= 1) of cycle(og_blocks)
next_block(og_blocks, n) == og_blocks[((n - 1) % Len(og_blocks)) + 1]


\* loop_exit one step later: the step numbered n_max is executed too
loop_exit_late(n, nmax) == n = nmax + 1

\* line 95
loop_exit(n, nmax) == n = nmax


\* left_operand taking the next block instead of the running graph
left_operand_block(fr, og2) == og2

\* line 98: the left operand of the step's compose
left_operand(fr, og2) == fr.og1

\* line 99
is_requested(n, n_blocks) == n \in n_blocks

\* line 105
ni_remove(inputs, ni_max) == Max({0, Len(inputs) - ni_max})

\* line 106: the possible lists `ins` of identifiers to remove
removal_list(rnd, inputs, k) ==
    IF ~rnd THEN {SliceFrom(inputs, k)} ELSE Choices(inputs, k)

\* lines 107-108: og.inputs.remove(i) for each i in ins; list.remove raises
\* ValueError when i is not in the list (the list keeps the removals made
\* before the failing one)
RECURSIVE remove_each(_, _)
remove_each(inputs, ins) ==
    IF ins = <<>> THEN [inputs |-> inputs, ok |-> TRUE]
    ELSE IF IndexOf(inputs, Head(ins)) = 0
         THEN [inputs |-> inputs, ok |-> FALSE]
         ELSE remove_each(DeleteAt(inputs, IndexOf(inputs, Head(ins))), Tail(ins))

GenArgs(rnd, maxstep) ==
    {[fn |-> "generate_og", og_blocks |-> b, n_blocks |-> s,
      merged_nodes_max |-> w, ni_max_vals |-> c, rnd |-> rnd] :
        b \in {<<1, 2>>, <<2, 1>>},
        s \in (SUBSET (1..maxstep)) \ {{}},
        w \in (-1)..MaxWidth,
        c \in UNION {[1..k -> CapVals] : k \in 0..MaxCapsLen}}

GenFrame == [og1 |-> 0, n |-> 0, og_lst |-> <<>>, og_nodes |-> <<>>, ti |-> 0]

\* the state at the call: the heap holds get_og_1() and get_og_2()
InitWith(A, fr) ==
    /\ heap = <<get_og_1, get_og_2>>
    /\ args \in A
    /\ frame = fr
    /\ pc = "call"
    /\ err = ""
    /\ calls = <<>>
    /\ truncs = <<>>

\* lines 72-92
generate_begin ==
    /\ pc = "call" /\ args.fn = "generate_og"
    /\ \E b \in first_block(args.rnd, args.og_blocks) :
         frame' = [frame EXCEPT !.og1 = b, !.n = 1]
    /\ pc' = "loop"
    /\ UNCHANGED <<heap, args, err, calls, truncs>>

\* lines 94-101: one iteration that does not break
generate_step ==
    /\ pc = "loop" /\ args.fn = "generate_og"
    /\ ~loop_exit(frame.n, n_max(args.n_blocks))
    /\ LET og2  == next_block(args.og_blocks, frame.n)
           self == left_operand(frame, og2)
       IN  \E mapping \in get_mapping(args.rnd, args.merged_nodes_max,
                                      heap[frame.og1], heap[og2]) :
             IF compose_error(heap[self], heap[og2], mapping) # ""
             THEN /\ err' = compose_error(heap[self], heap[og2], mapping)
                  /\ pc' = "raised"
                  /\ calls' = Append(calls, Call(self, og2, mapping, 0))
                  /\ UNCHANGED <<heap, frame>>
             ELSE LET new == Len(heap) + 1
                      g   == compose(heap[self], heap[og2], mapping)
                      req == is_requested(frame.n, args.n_blocks)
                  IN  /\ heap' = Append(heap, g)
                      /\ calls' = Append(calls, Call(self, og2, mapping, new))
                      /\ frame' = [frame EXCEPT
                            !.og1 = new,
                            !.n = frame.n + 1,
                            !.og_lst = IF req THEN Append(@, new) ELSE @,
                            !.og_nodes = IF req THEN Append(@, order(g)) ELSE @]
                      /\ UNCHANGED <<pc, err>>
    /\ UNCHANGED <<args, truncs>>

\* lines 95-96 and 103: the break, then the test of ni_max_vals
generate_break ==
    /\ pc = "loop" /\ args.fn = "generate_og"
    /\ loop_exit(frame.n, n_max(args.n_blocks))
    /\ pc' = IF args.ni_max_vals # <<>> THEN "truncate" ELSE "done"
    /\ frame' = [frame EXCEPT !.ti = 1]
    /\ UNCHANGED <<heap, args, err, calls, truncs>>

\* lines 104-108: one iteration of the truncation loop
generate_truncate ==
    /\ pc = "truncate" /\ args.fn = "generate_og"
    /\ frame.ti <= Min2(Len(frame.og_lst), Len(args.ni_max_vals))
    /\ LET og     == frame.og_lst[frame.ti]
           ni_max == args.ni_max_vals[frame.ti]
           k      == ni_remove(heap[og].inputs, ni_max)
       IN  \E ins \in removal_list(args.rnd, heap[og].inputs, k) :
             LET r == remove_each(heap[og].inputs, ins)
             IN  /\ heap' = [heap EXCEPT ![og].inputs = r.inputs]
                 /\ truncs' = Append(truncs,
                        [og |-> og, ni_max |-> ni_max, before |-> heap[og],
                         ins |-> ins, ok |-> r.ok])
                 /\ pc' = IF r.ok THEN "truncate" ELSE "raised"
                 /\ err' = IF r.ok THEN err
                           ELSE "ValueError: list.remove(x): x not in list"
                 /\ frame' = [frame EXCEPT !.ti = IF r.ok THEN @ + 1 ELSE @]
    /\ UNCHANGED <<args, calls>>

\* line 110
generate_return ==
    /\ pc = "truncate" /\ args.fn = "generate_og"
    /\ frame.ti > Min2(Len(frame.og_lst), Len(args.ni_max_vals))
    /\ pc' = "done"
    /\ UNCHANGED <<heap, args, frame, err, calls, truncs>>

NextGenerate ==
    \/ generate_begin
    \/ generate_step
    \/ generate_break
    \/ generate_truncate
    \/ generate_return

\* generate_og in deterministic mode
InitDet == InitWith(GenArgs(FALSE, MaxStep), GenFrame)
SpecDet == InitDet /\ [][NextGenerate]_vars

\* generate_og in stochastic mode
InitRnd == InitWith(GenArgs(TRUE, MaxStepRnd), GenFrame)
SpecRnd == InitRnd /\ [][NextGenerate]_vars

\* generate_og in both modes
Init == InitWith(GenArgs(FALSE, MaxStep) \cup GenArgs(TRUE, MaxStepRnd), GenFrame)
Spec == Init /\ [][NextGenerate]_vars

(***************************************************************************)
(* get_series_composition(og, n)                                           *)
(*   args  = [fn, og, n]                                                   *)
(*   frame = [og, og_aux, i, ...]   (og: the current binding of the name   *)
(*   `og`, i: iterations completed)                                        *)
(***************************************************************************)

\* series_outputs reading the caller's block instead of the running graph
series_outputs_original(h, fr, a) == h[a.og].outputs

\* line 141: the list whose elements become the values of the mapping
series_outputs(h, fr, a) == h[fr.og].outputs

\* line 141
series_mapping(h, fr, a) == DictZip(h[fr.og_aux].inputs, series_outputs(h, fr, a))

DepFrame ==
    [og |-> 0, og_aux |-> 0, i |-> 0, og0 |-> 0, og1 |-> 0, n |-> 0,
     l0 |-> 0, l1 |-> 0]

\* line 138
series_begin ==
    /\ pc = "call" /\ args.fn = "get_series_composition"
    /\ heap' = Append(heap, heap[args.og])
    /\ frame' = [frame EXCEPT !.og = args.og, !.og_aux = Len(heap) + 1, !.i = 0]
    /\ pc' = "series"
    /\ UNCHANGED <<args, err, calls, truncs>>

\* lines 140-142: one iteration
series_step ==
    /\ pc = "series" /\ args.fn = "get_series_composition"
    /\ frame.i < args.n
    /\ LET mapping == series_mapping(heap, frame, args)
           e == compose_error(heap[frame.og], heap[frame.og_aux], mapping)
           new == Len(heap) + 1
       IN  IF e # ""
           THEN /\ err' = e
                /\ pc' = "raised"
                /\ calls' = Append(calls, Call(frame.og, frame.og_aux, mapping, 0))
                /\ UNCHANGED <<heap, frame>>
           ELSE /\ heap' = Append(heap,
                        compose(heap[frame.og], heap[frame.og_aux], mapping))
                /\ calls' = Append(calls, Call(frame.og, frame.og_aux, mapping, new))
                /\ frame' = [frame EXCEPT !.og = new, !.i = @ + 1]
                /\ UNCHANGED <<pc, err>>
    /\ UNCHANGED <<args, truncs>>

\* line 144
series_return ==
    /\ pc = "series" /\ args.fn = "get_series_composition"
    /\ frame.i >= args.n
    /\ pc' = "done"
    /\ UNCHANGED <<heap, args, frame, err, calls, truncs>>

(***************************************************************************)
(* get_grid_composition(og, n_rows, n_layers)                              *)
(*   args  = [fn, og, n_rows, n_layers]                                    *)
(*   frame = [og0, og1, og_aux, n, l0, l1, og, i]                          *)
(***************************************************************************)

\* grid_error rejecting 1 as well, as its messages word it
grid_error_le(n_rows, n_layers) ==
    IF n_layers <= 1 THEN "ValueError: Number of layers  must be larger than 1"
    ELSE IF n_rows <= 1 THEN "ValueError: Number of rows  must be larger than 1"
    ELSE ""

\* lines 174-177; "" when both arguments pass
grid_error(n_rows, n_layers) ==
    IF n_layers < 1 THEN "ValueError: Number of layers  must be larger than 1"
    ELSE IF n_rows < 1 THEN "ValueError: Number of rows  must be larger than 1"
    ELSE ""

\* line 188: {node: i for i, node in enumerate(lst, start=shift)}
EnumDict(lst, shift) ==
    [node \in Range(lst) |->
        shift + Max({j \in DOMAIN lst : lst[j] = node}) - 1]

\* lines 199-205: the outputs add_l0 maps the inputs of l0 to
l0_outputs(outputs) ==
    IF Len(outputs) = 3 THEN SliceTo(outputs, -1)
    ELSE LET appended == Append(outputs, outputs[2])
         IN  DeleteAt(appended, IndexOf(appended, appended[2]))


\* l1_outputs always dropping both ends
l1_outputs_inner(outputs) == SliceTo(SliceFrom(outputs, 1), -1)

\* line 213: the outputs add_l1 maps the inputs of l1 to
l1_outputs(outputs) ==
    IF Len(outputs) > 3 THEN SliceTo(SliceFrom(outputs, 1), -1)
    ELSE SliceFrom(outputs, 1)

\* line 222: the i-th element (i >= 0) of cycle([add_l1, add_l0])
add_layer(i) == IF i % 2 = 0 THEN "add_l1" ELSE "add_l0"

\* line 223
layers_exit(i, n_layers) == i = n_layers - 1

\* lines 174-177 and 182-184
grid_begin ==
    /\ pc = "call" /\ args.fn = "get_grid_composition"
    /\ IF grid_error(args.n_rows, args.n_layers) # ""
       THEN /\ err' = grid_error(args.n_rows, args.n_layers)
            /\ pc' = "raised"
            /\ UNCHANGED <<heap, frame>>
       ELSE /\ heap' = heap \o <<heap[args.og], heap[args.og]>>
            /\ frame' = [frame EXCEPT !.og0 = args.og, !.og1 = Len(heap) + 1,
                                      !.og_aux = Len(heap) + 2, !.n = 1]
            /\ pc' = "get_layers"
            /\ err' = err
    /\ UNCHANGED <<args, calls, truncs>>

\* lines 186-194: one iteration of get_layers
grid_layers_step ==
    /\ pc = "get_layers" /\ args.fn = "get_grid_composition"
    /\ frame.n < args.n_rows
    /\ LET aux     == heap[frame.og_aux]
           mapping == EnumDict(aux.inputs \o aux.outputs, order(heap[frame.og0]))
           e0      == compose_error(heap[frame.og0], aux, mapping)
           both    == frame.n < args.n_rows - 1
           e1      == IF both THEN compose_error(heap[frame.og1], aux, mapping)
                      ELSE ""
           new0    == Len(heap) + 1
           new1    == Len(heap) + 2
       IN  IF e0 # ""
           THEN /\ err' = e0
                /\ pc' = "raised"
                /\ calls' = Append(calls, Call(frame.og0, frame.og_aux, mapping, 0))
                /\ UNCHANGED <<heap, frame>>
           ELSE IF e1 # ""
           THEN /\ err' = e1
                /\ pc' = "raised"
                /\ heap' = Append(heap, compose(heap[frame.og0], aux, mapping))
                /\ calls' = calls \o
                       <<Call(frame.og0, frame.og_aux, mapping, new0),
                         Call(frame.og1, frame.og_aux, mapping, 0)>>
                /\ frame' = [frame EXCEPT !.og0 = new0]
           ELSE /\ heap' = IF both
                           THEN heap \o <<compose(heap[frame.og0], aux, mapping),
                                          compose(heap[frame.og1], aux, mapping)>>
                           ELSE Append(heap, compose(heap[frame.og0], aux, mapping))
                /\ calls' = IF both
                            THEN calls \o
                                   <<Call(frame.og0, frame.og_aux, mapping, new0),
                                     Call(frame.og1, frame.og_aux, mapping, new1)>>
                            ELSE Append(calls,
                                   Call(frame.og0, frame.og_aux, mapping, new0))
                /\ frame' = [frame EXCEPT !.og0 = new0,
                                          !.og1 = IF both THEN new1 ELSE @,
                                          !.n = @ + 1]
                /\ UNCHANGED <<pc, err>>
    /\ UNCHANGED <<args, truncs>>

\* lines 196 and 219-220
grid_layers_return ==
    /\ pc = "get_layers" /\ args.fn = "get_grid_composition"
    /\ frame.n >= args.n_rows
    /\ heap' = Append(heap, heap[frame.og0])
    /\ frame' = [frame EXCEPT !.l0 = frame.og0, !.l1 = frame.og1,
                              !.og = Len(heap) + 1, !.i = 0]
    /\ pc' = "layers"
    /\ UNCHANGED <<args, err, calls, truncs>>

\* lines 222-225 with add_l0 (198-210) or add_l1 (212-217): one iteration
grid_add_layer ==
    /\ pc = "layers" /\ args.fn = "get_grid_composition"
    /\ ~layers_exit(frame.i, args.n_layers)
    /\ LET l0first == add_layer(frame.i) = "add_l0"
           layer   == IF l0first THEN frame.l0 ELSE frame.l1
           outputs == IF l0first THEN l0_outputs(heap[frame.og].outputs)
                      ELSE l1_outputs(heap[frame.og].outputs)
           mapping == DictZip(heap[layer].inputs, outputs)
           e       == compose_error(heap[frame.og], heap[layer], mapping)
           new     == Len(heap) + 1
       IN  IF e # ""
           THEN /\ err' = e
                /\ pc' = "raised"
                /\ calls' = Append(calls, Call(frame.og, layer, mapping, 0))
                /\ UNCHANGED <<heap, frame>>
           ELSE /\ heap' = Append(heap, compose(heap[frame.og], heap[layer], mapping))
                /\ calls' = Append(calls, Call(frame.og, layer, mapping, new))
                /\ frame' = [frame EXCEPT !.og = new, !.i = @ + 1]
                /\ UNCHANGED <<pc, err>>
    /\ UNCHANGED <<args, truncs>>

\* line 227
grid_return ==
    /\ pc = "layers" /\ args.fn = "get_grid_composition"
    /\ layers_exit(frame.i, args.n_layers)
    /\ pc' = "done"
    /\ UNCHANGED <<heap, args, frame, err, calls, truncs>>

SeriesArgs ==
    {[fn |-> "get_series_composition", og |-> b, n |-> k] :
        b \in {1, 2}, k \in 0..MaxN}

GridArgs ==
    {[fn |-> "get_grid_composition", og |-> b, n_rows |-> r, n_layers |-> l] :
        b \in {1, 2}, r \in (-1)..MaxRows, l \in (-1)..MaxLayers}

NextSeries ==
    \/ series_begin
    \/ series_step
    \/ series_return

NextGrid ==
    \/ grid_begin
    \/ grid_layers_step
    \/ grid_layers_return
    \/ grid_add_layer
    \/ grid_return

\* the two deprecated constructors
InitDeprecated == InitWith(SeriesArgs \cup GridArgs, DepFrame)
SpecDeprecated == InitDeprecated /\ [][NextSeries \/ NextGrid]_vars

(***************************************************************************)
(* Properties.                                                             *)
(***************************************************************************)
IsGenerate == args.fn = "generate_og"
IsSeries == args.fn = "get_series_composition"
IsGrid == args.fn = "get_grid_composition"

\* the elements of a finite set of integers in ascending order
Ascending(S) ==
    [i \in 1..Cardinality(S) |->
        CHOOSE x \in S : Cardinality({y \in S : y < x}) = i - 1]

\* the step (index of the compose call) that produced object o, 0 if none
StepOf(o) ==
    IF \E k \in DOMAIN calls : calls[k].result = o
    THEN CHOOSE k \in DOMAIN calls : calls[k].result = o
    ELSE 0

\* the steps of the snapshots of og_lst, in list order
SnapshotSteps == [i \in DOMAIN frame.og_lst |-> StepOf(frame.og_lst[i])]

LoopFinished == pc \in {"truncate", "done"}

\* C1: for every non-empty n_blocks of positive integers generate_og returns
\* without error, and once its loop has ended og_lst holds, in ascending
\* order of step, exactly one snapshot per distinct k in n_blocks with
\* k < max(n_blocks), none for max(n_blocks), and og_nodes has the length of
\* og_lst.
C1_ReturnsSnapshotsBelowMax ==
    IsGenerate =>
        /\ pc # "raised"
        /\ LoopFinished =>
             /\ SnapshotSteps =
                  Ascending({k \in args.n_blocks : k < n_max(args.n_blocks)})
             /\ Len(frame.og_nodes) = Len(frame.og_lst)

\* C1, the part that holds in both modes: whenever the loop has ended the
\* result lists are as C1 describes them.
C1_SnapshotsWhenLoopEnds ==
    (IsGenerate /\ LoopFinished) =>
        /\ SnapshotSteps =
             Ascending({k \in args.n_blocks : k < n_max(args.n_blocks)})
        /\ Len(frame.og_nodes) = Len(frame.og_lst)
        /\ n_max(args.n_blocks) \notin Range(SnapshotSteps)

\* C1, deterministic mode: generate_og never raises.
C1_DeterministicNeverRaises == (IsGenerate /\ ~args.rnd) => pc # "raised"

\* the call of the scenario of test_parallel
ParallelScenario ==
    /\ args = [fn |-> "generate_og", og_blocks |-> <<1, 2>>,
               n_blocks |-> {1, 3, 5}, merged_nodes_max |-> 0,
               ni_max_vals |-> <<>>, rnd |-> FALSE]
    /\ pc = "done"

\* C2 as stated: pool [get_og_1(), get_og_2()], n_blocks [1, 3, 5],
\* merged_nodes_max 0, deterministic: the returned node counts are
\* [20, 38, 56].
C2_NodeCounts_20_38_56 == ParallelScenario => frame.og_nodes = <<20, 38, 56>>

\* C2 amended: the same call returns the node counts [20, 38], the snapshots
\* of steps 1 and 3; step 5 = max(n_blocks) is not executed and 56 is not
\* produced.
C2_NodeCounts_20_38 ==
    ParallelScenario =>
        /\ frame.og_nodes = <<20, 38>>
        /\ SnapshotSteps = <<1, 3>>
        /\ Len(calls) = 4

C2_Witness == ParallelScenario /\ Len(frame.og_lst) = 2

\* the width C3 states for a step composing g1 (running) with g2 (block)
C3_Width(g1, g2) ==
    IF args.merged_nodes_max >= 0
    THEN Min2(args.merged_nodes_max, Min2(Len(g1.outputs), Len(g2.inputs)))
    ELSE Min2(Len(g1.outputs), Len(g2.inputs))

\* C3: deterministic mode; at every executed step the mapping pairs the
\* first w inputs of the block with the first w outputs of the running graph
\* for the clamped width w, and the composed graph has
\* order(running) + order(block) - w nodes; pool [A, B] with width 1 gives
\* 19 nodes at step 1 and 35 at step 3.
C3_ClampedWidthAndOrder ==
    (IsGenerate /\ ~args.rnd) =>
        /\ \A k \in DOMAIN calls :
             LET g1 == heap[calls[k].self]
                 g2 == heap[calls[k].other]
                 w  == C3_Width(g1, g2)
             IN  /\ calls[k].result # 0
                 /\ calls[k].other = next_block(args.og_blocks, k)
                 /\ DOMAIN calls[k].mapping = {g2.inputs[i] : i \in 1..w}
                 /\ Cardinality(DOMAIN calls[k].mapping) = w
                 /\ \A i \in 1..w : calls[k].mapping[g2.inputs[i]] = g1.outputs[i]
                 /\ order(heap[calls[k].result]) = order(g1) + order(g2) - w
        /\ (args.og_blocks = <<1, 2>> /\ args.merged_nodes_max = 1) =>
             /\ Len(calls) >= 1 => order(heap[calls[1].result]) = 19
             /\ Len(calls) >= 3 => order(heap[calls[3].result]) = 35

\* a finished run whose third step clamped a request of 3 to 2 pairs
C3_Witness ==
    /\ IsGenerate /\ ~args.rnd /\ pc = "done"
    /\ args.merged_nodes_max = 3
    /\ Len(calls) >= 3
    /\ Cardinality(DOMAIN calls[3].mapping) = 2

\* C4: a truncation whose cap is not smaller than the number of inputs
\* leaves the snapshot (inputs, nodes, edges, outputs, measurements) as it
\* was, in both modes.
C4_TruncationNoOp ==
    IsGenerate =>
        \A t \in DOMAIN truncs :
            Len(truncs[t].before.inputs) <= truncs[t].ni_max =>
                heap[truncs[t].og] = truncs[t].before

\* C5: deterministic mode; a truncation with more inputs than the cap leaves
\* exactly the last `cap` inputs, in their order.
C5_TruncationKeepsTail ==
    (IsGenerate /\ ~args.rnd) =>
        \A t \in DOMAIN truncs :
            LET b == truncs[t].before.inputs
                cap == truncs[t].ni_max
            IN  Len(b) > cap =>
                    /\ truncs[t].ok
                    /\ heap[truncs[t].og].inputs = SliceFrom(b, Len(b) - cap)

HasDuplicate(lst) == \E i, j \in DOMAIN lst : i # j /\ lst[i] = lst[j]

\* C6: stochastic mode; a removal sample naming an identifier more than once
\* raises no error: the identifier is removed once and generate_og returns.
C6_DuplicateRemovalTolerated ==
    (IsGenerate /\ args.rnd) =>
        \A t \in DOMAIN truncs :
            HasDuplicate(truncs[t].ins) =>
                /\ truncs[t].ok
                /\ pc # "raised"
                /\ Range(heap[truncs[t].og].inputs) =
                     Range(truncs[t].before.inputs) \ Range(truncs[t].ins)

\* the block object as the caller built it
OriginalBlock(o) == IF o = 1 THEN get_og_1 ELSE get_og_2

\* C7 as stated: in every iteration of get_series_composition the mapping is
\* zip(copy.inputs, block.outputs) with block the caller's original block,
\* and the original block is unchanged.
C7_MappingToOriginalOutputs ==
    IsSeries =>
        /\ heap[args.og] = OriginalBlock(args.og)
        /\ \A k \in DOMAIN calls :
             calls[k].mapping =
                DictZip(heap[calls[k].other].inputs, heap[args.og].outputs)

\* C7 amended: the first iteration maps the copy's inputs to the original
\* block's outputs; every later iteration maps them, in order, to the
\* outputs of the running graph returned by the previous iteration, none of
\* which is an output of the original block; the right operand is always
\* the copy and the original block is unchanged.
C7_MappingToRunningOutputs ==
    IsSeries =>
        /\ heap[args.og] = OriginalBlock(args.og)
        /\ \A k \in DOMAIN calls :
             LET running == IF k = 1 THEN args.og ELSE calls[k - 1].result
                 copy    == heap[calls[k].other]
             IN  /\ calls[k].self = running
                 /\ calls[k].other = frame.og_aux
                 /\ calls[k].other # args.og
                 /\ copy = OriginalBlock(args.og)
                 /\ DOMAIN calls[k].mapping = Range(copy.inputs)
                 /\ \A i \in DOMAIN copy.inputs :
                      calls[k].mapping[copy.inputs[i]] = heap[running].outputs[i]
                 /\ k > 1 =>
                      Values(calls[k].mapping) \cap Range(heap[args.og].outputs) = {}

C7_Witness == IsSeries /\ pc = "done" /\ Len(calls) >= 2

\* the boundary width C8 states
C8_Width == IF args.n_rows = 1 /\ args.n_layers > 1 THEN 3 ELSE 2 * args.n_rows

\* C8: for n_rows >= 1 and n_layers >= 1 get_grid_composition returns a
\* graph with 3 inputs and 3 outputs when n_rows = 1 and n_layers > 1, and
\* 2 * n_rows of each otherwise.
C8_GridBoundaryWidth ==
    (IsGrid /\ args.n_rows >= 1 /\ args.n_layers >= 1) =>
        /\ pc # "raised"
        /\ pc = "done" =>
             /\ Len(heap[frame.og].inputs) = C8_Width
             /\ Len(heap[frame.og].outputs) = C8_Width

C8_Witness ==
    /\ IsGrid /\ pc = "done"
    /\ args.n_rows = 1 /\ args.n_layers = 3
    /\ Len(heap[frame.og].inputs) = 3

\* C9: get_grid_composition raises ValueError, before any composition,
\* exactly when n_rows < 1 or n_layers < 1; the message names a bound that
\* was violated; for n_rows >= 1 and n_layers >= 1 nothing is raised.
C9_GridRejectsExactlyInvalid ==
    (IsGrid /\ pc # "call") =>
        /\ pc = "raised" <=> (args.n_rows < 1 \/ args.n_layers < 1)
        /\ pc = "raised" =>
             /\ calls = <<>>
             /\ heap = <<get_og_1, get_og_2>>
             /\ err \in {"ValueError: Number of layers  must be larger than 1",
                         "ValueError: Number of rows  must be larger than 1"}
             /\ err = "ValueError: Number of layers  must be larger than 1"
                    => args.n_layers < 1
             /\ err = "ValueError: Number of rows  must be larger than 1"
                    => args.n_rows < 1
        /\ pc # "raised" => err = ""

C9_Witness ==
    /\ IsGrid /\ pc = "raised"
    /\ args.n_rows < 1 /\ args.n_layers >= 1
    /\ err = "ValueError: Number of rows  must be larger than 1"

\* C10 as stated: a graph appended to og_lst is never an operand of a later
\* compose call.
C10_SnapshotNeverOperand ==
    IsGenerate =>
        \A i, j \in DOMAIN calls :
            (i < j /\ calls[i].result \in Range(frame.og_lst)) =>
                /\ calls[j].self # calls[i].result
                /\ calls[j].other # calls[i].result

\* C10 amended: a graph appended to og_lst is never the right operand of a
\* later compose call; it is the left operand of the compose call of the
\* next step, when there is one, and of no other; until the truncation it
\* is still the graph compose returned.
C10_SnapshotOnlyNextLeftOperand ==
    IsGenerate =>
        \A i \in DOMAIN calls :
            calls[i].result \in Range(frame.og_lst) =>
                /\ \A j \in DOMAIN calls :
                     /\ calls[j].other # calls[i].result
                     /\ calls[j].self = calls[i].result <=> j = i + 1
                /\ pc = "loop" =>
                     heap[calls[i].result] =
                        compose(heap[calls[i].self], heap[calls[i].other],
                                calls[i].mapping)

C10_Witness ==
    /\ IsGenerate
    /\ \E i \in DOMAIN calls :
         /\ calls[i].result \in Range(frame.og_lst)
         /\ i + 1 \in DOMAIN calls
         /\ calls[i + 1].self = calls[i].result
         /\ calls[i + 1].result # 0

\* whether the dict passed by compose call k is a one-to-one correspondence
\* from inputs of the block to outputs of the running graph
OneToOne(k) ==
    LET g1 == heap[calls[k].self]
        g2 == heap[calls[k].other]
        mp == calls[k].mapping
    IN  /\ DOMAIN mp \subseteq Range(g2.inputs)
        /\ Values(mp) \subseteq Range(g1.outputs)
        /\ \A a, b \in DOMAIN mp : a # b => mp[a] # mp[b]
        /\ Cardinality(DOMAIN mp) <= Min2(Len(g1.outputs), Len(g2.inputs))

\* C11: every mapping generate_og passes to compose, in deterministic and in
\* stochastic mode, has distinct inputs of the next block as keys, distinct
\* outputs of the running graph as values (no two keys share a value), and
\* at most min(|running.outputs|, |block.inputs|) entries.
C11_MappingOneToOne ==
    IsGenerate => \A k \in DOMAIN calls : OneToOne(k)

\* C11, deterministic mode: every mapping is one-to-one.
C11_DeterministicOneToOne ==
    (IsGenerate /\ ~args.rnd) => \A k \in DOMAIN calls : OneToOne(k)

\* C11, the parts that hold in stochastic mode too: keys are inputs of the
\* block, values are outputs of the running graph, and the size is at most
\* min(|running.outputs|, |block.inputs|).
C11_KeysValuesAndSize ==
    IsGenerate =>
        \A k \in DOMAIN calls :
            /\ DOMAIN calls[k].mapping \subseteq Range(heap[calls[k].other].inputs)
            /\ Values(calls[k].mapping) \subseteq Range(heap[calls[k].self].outputs)
            /\ Cardinality(DOMAIN calls[k].mapping) <=
                 Min2(Len(heap[calls[k].self].outputs),
                      Len(heap[calls[k].other].inputs))

====
